---- MODULE Spec2Model ----
(***************************************************************************)
(* Model of fetcher/fetch.py: the source adapters, the traction scorer,    *)
(* deduplicate, and the rank / statistics / snapshot part of main.         *)
(*                                                                         *)
(* Numbers.  Python floats are modelled in fixed point:                    *)
(*   - a normalised signal in [0,1] is an integer in 0..1000 (thousandths) *)
(*   - a traction score is an integer number of hundredths (round(x, 2)),  *)
(*     so 0..100 is 0..10000                                               *)
(*   - a time is an integer number of clock ticks, TicksPerHour per hour   *)
(* Strings that are only compared (urls, native keys) are natural numbers, *)
(* 0 standing for the empty string.                                        *)
(***************************************************************************)
EXTENDS Integers, Sequences, FiniteSets, TLC

VARIABLES
    pc,         \* position of main: the adapter being run, then the core steps
    sub,        \* index of the adapter's next sub-request (its for loop)
    clock,      \* the wall clock, read by now_iso() and hours_ago()
    budget,     \* events (a raw record, a failure) the environment may still produce
    items,      \* the running adapter's local list `items`
    seen_ids,   \* fetch_hackernews' / fetch_youtube's local set `seen_ids`
    yt_path,    \* which branch of fetch_youtube runs: "api", "ytdlp", "none"
    all_items,  \* main's local list `all_items`
    merged,     \* value of all_items handed to deduplicate (line 602)
    deduped,    \* value of all_items returned by deduplicate (line 602)
    output,     \* the snapshot document written at lines 616-630
    caught,     \* the adapter failures caught so far, in order
    exc,        \* the exception that escaped main, "none" while it runs
    sc_in,      \* arguments of a direct call of compute_traction_score
    sc_out      \* its outcome

vars == <<pc, sub, clock, budget, items, seen_ids, yt_path, all_items,
          merged, deduped, output, caught, exc, sc_in, sc_out>>

pipe_vars == <<pc, sub, clock, budget, items, seen_ids, yt_path,
               all_items, merged, deduped, output, caught, exc>>

-----------------------------------------------------------------------------
(* Bounds of the model *)

MaxEvents == 2      \* raw records and failures the environment produces in a run
MaxSub == 2         \* iterations modelled of an adapter loop over a long list
MaxTicks == 1       \* clock ticks that may pass during a run
MaxItems == 3       \* raw records of a merged input handed to the core
MaxBulkExtras == 1  \* raw records that come with a long listing
MaxCount == 4       \* largest small count given to the scorer directly
TicksPerHour == 2   \* resolution of the clock

(* Program constants *)

MAX_ITEMS_PER_SOURCE == 30
MAX_TOTAL_ITEMS == 200
HN_TOP_N == 60
half_life == 12

-----------------------------------------------------------------------------
(* Python values *)

None == [k |-> "None", v |-> 0]
Absent == [k |-> "absent", v |-> 0]     \* a key the JSON object does not hold
Num(n) == [k |-> "num", v |-> n]
Str(s) == [k |-> "str", v |-> s]        \* s is the code of the string, 0 for ""

\* dict.get(key, default)
Get(v, default) == IF v = Absent THEN default ELSE v

\* `v or default`
OrElse(v, default) == IF v \in {None, Num(0), Str(0)} THEN default ELSE v

Raise(e) == [exc |-> e, value |-> 0]
Return(v) == [exc |-> "none", value |-> v]

Min2(a, b) == IF a < b THEN a ELSE b
Max2(a, b) == IF a > b THEN a ELSE b

-----------------------------------------------------------------------------
(* Traction scoring, lines 87-93 and 156-170 *)

SOURCE_WEIGHTS ==
    [hackernews |-> 100, reddit |-> 85, github |-> 75, youtube |-> 65, news |-> 55]

RECURSIVE Log2Floor(_)
Log2Floor(n) == IF n < 2 THEN 0 ELSE 1 + Log2Floor(n \div 2)

RECURSIVE Pow2(_)
Pow2(k) == IF k = 0 THEN 1 ELSE 2 * Pow2(k - 1)

\* math.log1p(x) in thousandths for an integer x >= 0: ln 2 = 0.693 per doubling
\* of 1 + x, linear between two powers of two.  Monotone, 0 at x = 0.
log1p(x) ==
    LET n == 1 + x
        k == Log2Floor(n)
    IN  693 * k + (693 * (n - Pow2(k))) \div Pow2(k)

\* math.exp(-0.693 * h / half_life) in thousandths for an integer h >= 0
exp_decay(h) ==
    LET table == <<1000, 943, 890, 840, 793, 749, 707, 667, 630, 594, 561, 529>>
    IN  table[(h % half_life) + 1] \div Pow2(h \div half_life)

\* norm without the cap: log1p(count) / log1p(cap)
norm_no_cap(count, cap) ==
    IF count = None THEN Raise("TypeError")
    ELSE IF count.v <= -1 THEN Raise("ValueError")
    ELSE Return((log1p(count.v) * 1000) \div log1p(cap))

\* math.log1p(min(count, cap)) / math.log1p(cap): min raises TypeError on None,
\* log1p raises ValueError at or below -1
norm(count, cap) ==
    IF count = None THEN Raise("TypeError")
    ELSE IF Min2(count.v, cap) <= -1 THEN Raise("ValueError")
    ELSE Return((log1p(Min2(count.v, cap)) * 1000) \div log1p(cap))

compute_traction_score(source, engagement, comments, hours_old, engagement_cap, comments_cap) ==
    LET eng_norm == norm(engagement, engagement_cap)
        cmt_norm == norm(comments, comments_cap)
        recency == exp_decay(Max2(hours_old, 0))
        src_w == IF source \in DOMAIN SOURCE_WEIGHTS THEN SOURCE_WEIGHTS[source] ELSE 50
    IN  IF eng_norm.exc # "none" THEN eng_norm
        ELSE IF cmt_norm.exc # "none" THEN cmt_norm
        ELSE Return((eng_norm.value * 40 + cmt_norm.value * 20 + recency * 25
                     + src_w * 10 * 15 + 5) \div 10)

-----------------------------------------------------------------------------
(* Helpers, lines 97-152 *)

\* The instant the run starts, a day after the origin of the time axis
RunStart == 24 * TicksPerHour

\* A timestamp twelve hours before the run
Old == RunStart - 12 * TicksPerHour

\* now_iso(): the clock's reading
now_iso(now) == now

\* make_id: the digest of "source:key".  Distinct (source, key) pairs are taken to
\* give distinct ids (collisions of the 12 hex digits are not modelled).
make_id(source, key) == <<source, key>>

\* The strptime formats parse_date tries, in order
FORMATS ==
    << "%a, %d %b %Y %H:%M:%S %z", "%Y-%m-%dT%H:%M:%S%z", "%Y-%m-%dT%H:%M:%SZ",
       "%Y-%m-%dT%H:%M:%S.%f%z", "%Y-%m-%d %H:%M:%S", "%Y%m%d" >>

\* A date string is [fmt, t]: the layout it is written in and the instant it
\* denotes; EmptyDate is "".  A layout outside FORMATS matches no format.
DateStr(fmt, t) == [k |-> "date", v |-> t, fmt |-> fmt]
EmptyDate == [k |-> "date", v |-> 0, fmt |-> ""]

\* parse_date without the fallback: a string no format matches is passed on
parse_date_no_fallback(date_str, now) ==
    IF date_str.fmt = "" THEN now_iso(now) ELSE date_str.v

\* parse_date: the instant of the date, or the clock's reading at the call
parse_date(date_str, now) ==
    IF date_str.fmt = "" THEN now_iso(now)
    ELSE IF \E i \in DOMAIN FORMATS : FORMATS[i] = date_str.fmt THEN date_str.v
    ELSE now_iso(now)

\* hours_ago: whole hours between the date and the clock's reading
hours_ago(iso_date, now) == (now - iso_date) \div TicksPerHour

Item(id, source, url, date, traction) ==
    [id |-> id, source |-> source, url |-> url, date |-> date,
     traction_score |-> traction]

\* Codes of the urls the adapters build from a native key
HNItemUrl(story_id) == 1000 + story_id
RedditPermalinkUrl(permalink) == 2000 + permalink
YouTubeWatchUrl(vid) == 3000 + vid

-----------------------------------------------------------------------------
(* Raw records.  One record of a response is                                *)
(*   [kind, key, url, eng, cmt, date]                                       *)
(* kind "ok" is a well-formed record; "malformed" one whose shape the        *)
(* adapter does not expect (not an object, a null where a string or an      *)
(* object is read); "http" a Hacker News story whose own request fails;     *)
(* "not_story" a Hacker News item that is null or of another type;          *)
(* "stickied" a stickied Reddit post.                                       *)

Raw(kind, key, url, eng, cmt, date) ==
    [kind |-> kind, key |-> key, url |-> url, eng |-> eng, cmt |-> cmt, date |-> date]

\* The local state of an adapter while it walks a response
Acc(its, seen, caught_, exc_) ==
    [items |-> its, seen |-> seen, caught |-> caught_, exc |-> exc_]

\* Lines 185-225: one story id of a Hacker News listing
hn_story(rec, acc, now) ==
    IF rec.key.v \in acc.seen THEN acc
    ELSE
    LET acc1 == [acc EXCEPT !.seen = @ \cup {rec.key.v}]
        url == OrElse(Get(rec.url, None), Str(HNItemUrl(rec.key.v)))
        score == Get(rec.eng, Num(0))
        n_comments == Get(rec.cmt, Num(0))
        unix_time == Get(rec.date, Num(0))
        iso_date == IF unix_time \in {None, Num(0)} THEN now_iso(now) ELSE unix_time.v
        age_h == hours_ago(iso_date, now)
        traction == compute_traction_score("hackernews", score, n_comments, age_h, 5000, 500)
    IN  IF rec.kind = "http" THEN [acc1 EXCEPT !.caught = Append(@, "transport")]
        ELSE IF rec.kind = "malformed" THEN [acc1 EXCEPT !.exc = "AttributeError"]
        ELSE IF rec.kind = "not_story" THEN acc1
        ELSE IF traction.exc # "none" THEN [acc1 EXCEPT !.exc = traction.exc]
        ELSE [acc1 EXCEPT !.items = Append(@,
                Item(make_id("hackernews", rec.key.v), "hackernews", url.v,
                     iso_date, traction.value))]

\* Lines 255-287: one post of a subreddit listing
reddit_post(rec, acc, now) ==
    LET url == OrElse(Get(rec.url, None), Str(RedditPermalinkUrl(0)))
        score == Get(rec.eng, Num(0))
        n_comments == Get(rec.cmt, Num(0))
        created == Get(rec.date, Num(0))
        iso_date == IF created \in {None, Num(0)} THEN now_iso(now) ELSE created.v
        age_h == hours_ago(iso_date, now)
        traction == compute_traction_score("reddit", score, n_comments, age_h, 5000, 500)
    IN  IF rec.kind = "malformed" THEN [acc EXCEPT !.exc = "AttributeError"]
        ELSE IF rec.kind = "stickied" THEN acc
        ELSE IF traction.exc # "none" THEN [acc EXCEPT !.exc = traction.exc]
        ELSE [acc EXCEPT !.items = Append(@,
                Item(make_id("reddit", Get(rec.key, url).v), "reddit", url.v,
                     iso_date, traction.value))]

\* Lines 319-347: one repository of a search result
github_repo(rec, acc, now) ==
    LET stars == Get(rec.eng, Num(0))
        forks == Get(rec.cmt, Num(0))
        created == Get(rec.date, EmptyDate)
        age_h == hours_ago(parse_date(created, now), now)
        traction == compute_traction_score("github", stars, forks, age_h, 10000, 2000)
    IN  IF rec.kind = "malformed" THEN [acc EXCEPT !.exc = "AttributeError"]
        ELSE IF traction.exc # "none" THEN [acc EXCEPT !.exc = traction.exc]
        ELSE [acc EXCEPT !.items = Append(@,
                Item(make_id("github", Get(rec.key, Str(0)).v), "github",
                     Get(rec.url, Str(0)).v, parse_date(created, now), traction.value))]

\* Lines 371-385: one search hit of the YouTube API, kept raw until the
\* statistics are fetched
youtube_hit(rec, acc, now) ==
    LET video_id == Get(rec.key, Str(0))
    IN  IF rec.kind = "malformed" THEN [acc EXCEPT !.exc = "AttributeError"]
        ELSE IF video_id = Str(0) \/ video_id.v \in acc.seen THEN acc
        ELSE [acc EXCEPT !.seen = @ \cup {video_id.v}, !.items = Append(@, rec)]

\* int(stats.get(name, 0) or 0), lines 408-410
IntOrZero(v) == OrElse(Get(v, Num(0)), Num(0))

\* Lines 417-445: one raw hit turned into an item; stats_ok is whether the
\* statistics request of its batch succeeded
youtube_video(rec, acc, now, stats_ok) ==
    LET vid == rec.key.v
        iso_date == parse_date(Get(rec.date, EmptyDate), now)
        age_h == hours_ago(iso_date, now)
        view_count == IF stats_ok THEN IntOrZero(rec.eng) ELSE Num(0)
        like_count == Num(0)
        comment_count == IF stats_ok THEN IntOrZero(rec.cmt) ELSE Num(0)
        traction == compute_traction_score("youtube",
                        Num(view_count.v + like_count.v * 10), comment_count,
                        age_h, 1000000, 500)
    IN  IF traction.exc # "none" THEN [acc EXCEPT !.exc = traction.exc]
        ELSE [acc EXCEPT !.items = Append(@,
                Item(make_id("youtube", vid), "youtube", YouTubeWatchUrl(vid),
                     iso_date, traction.value))]

\* Lines 465-506: one entry of a yt-dlp search
ytdlp_entry(rec, acc, now) ==
    LET video_id == Get(rec.key, Str(0))
        upload_date == OrElse(Get(rec.date, None), EmptyDate)
        iso_date == IF upload_date.fmt = "%Y%m%d" THEN upload_date.v ELSE now_iso(now)
        view_count == OrElse(Get(rec.eng, None), Num(0))
        age_h == hours_ago(iso_date, now)
        traction == compute_traction_score("youtube", view_count, Num(0), age_h, 1000000, 500)
    IN  IF rec.kind = "malformed" THEN [acc EXCEPT !.exc = "AttributeError"]
        ELSE IF video_id = Str(0) \/ video_id.v \in acc.seen THEN acc
        ELSE IF traction.exc # "none"
             THEN [acc EXCEPT !.seen = @ \cup {video_id.v}, !.exc = traction.exc]
        ELSE [acc EXCEPT !.seen = @ \cup {video_id.v}, !.items = Append(@,
                Item(make_id("youtube", video_id.v), "youtube",
                     YouTubeWatchUrl(video_id.v), iso_date, traction.value))]

\* Lines 528-551: one entry of a feed
rss_entry(rec, acc, now) ==
    LET link == Get(rec.url, Str(0))
        published == Get(rec.date, EmptyDate)
        iso_date == parse_date(published, now)
        age_h == hours_ago(iso_date, now)
        traction == compute_traction_score("news", Num(0), Num(0), age_h, 5000, 500)
    IN  IF traction.exc # "none" THEN [acc EXCEPT !.exc = traction.exc]
        ELSE [acc EXCEPT !.items = Append(@,
                Item(make_id("news", link.v), "news", link.v, iso_date, traction.value))]

\* One record, by the adapter (and branch) that reads it
Step(how, rec, acc, now) ==
    CASE how = "hackernews" -> hn_story(rec, acc, now)
      [] how = "reddit" -> reddit_post(rec, acc, now)
      [] how = "github" -> github_repo(rec, acc, now)
      [] how = "api" -> youtube_hit(rec, acc, now)
      [] how = "ytdlp" -> ytdlp_entry(rec, acc, now)
      [] how = "news" -> rss_entry(rec, acc, now)

\* The for loop over a response: records lo..hi in order, until one raises.
\* (The range is walked by halves, which keeps the evaluation shallow; the
\* records are still taken strictly left to right.)
RECURSIVE WalkRange(_, _, _, _, _, _)
WalkRange(how, recs, lo, hi, acc, now) ==
    IF lo > hi \/ acc.exc # "none" THEN acc
    ELSE IF lo = hi THEN Step(how, recs[lo], acc, now)
    ELSE LET mid == (lo + hi) \div 2
             left == WalkRange(how, recs, lo, mid, acc, now)
         IN  WalkRange(how, recs, mid + 1, hi, left, now)

Walk(how, recs, acc, now) == WalkRange(how, recs, 1, Len(recs), acc, now)

-----------------------------------------------------------------------------
(* Deduplication, lines 558-570 *)

\* The loop body with the test on the url alone
dedup_item_url_only(st, item) ==
    IF item.url \in st.seen_urls
    THEN st
    ELSE [seen_urls |-> st.seen_urls \cup {item.url},
          seen_ids |-> st.seen_ids \cup {item.id},
          result |-> Append(st.result, item)]

\* The loop body putting a kept item at the front of result
dedup_item_prepend(st, item) ==
    IF item.url \in st.seen_urls \/ item.id \in st.seen_ids
    THEN st
    ELSE [seen_urls |-> st.seen_urls \cup {item.url},
          seen_ids |-> st.seen_ids \cup {item.id},
          result |-> <<item>> \o st.result]

\* The loop body recording the url and the id of an item it drops as well
dedup_item_marks_dropped(st, item) ==
    [seen_urls |-> st.seen_urls \cup {item.url},
     seen_ids |-> st.seen_ids \cup {item.id},
     result |-> IF item.url \in st.seen_urls \/ item.id \in st.seen_ids
                THEN st.result
                ELSE Append(st.result, item)]

\* Lines 563-569: the body of the loop for one item; st holds seen_urls,
\* seen_ids and result
dedup_item(st, item) ==
    IF item.url \in st.seen_urls \/ item.id \in st.seen_ids
    THEN st
    ELSE [seen_urls |-> st.seen_urls \cup {item.url},
          seen_ids |-> st.seen_ids \cup {item.id},
          result |-> Append(st.result, item)]

\* Lines 562-569: the loop over items lo..hi, in order (walked by halves)
RECURSIVE dedup_loop(_, _, _, _)
dedup_loop(its, lo, hi, st) ==
    IF lo > hi THEN st
    ELSE IF lo = hi THEN dedup_item(st, its[lo])
    ELSE LET mid == (lo + hi) \div 2
             left == dedup_loop(its, lo, mid, st)
         IN  IF Len(left.result) >= 0       \* left half first
             THEN dedup_loop(its, mid + 1, hi, left)
             ELSE left

deduplicate(its) ==
    dedup_loop(its, 1, Len(its),
               [seen_urls |-> {}, seen_ids |-> {}, result |-> <<>>]).result

-----------------------------------------------------------------------------
(* Ranking and statistics, lines 603-614 *)

\* One element put before the elements of its own score, as an ascending
\* sort that is then reversed leaves it
insert_desc_before_ties(sorted, item) ==
    LET k == Cardinality({i \in DOMAIN sorted :
                            sorted[i].traction_score > item.traction_score})
    IN  SubSeq(sorted, 1, k) \o <<item>> \o SubSeq(sorted, k + 1, Len(sorted))

\* One element put into a list sorted by score, highest first, after every
\* element whose score is at least its own
insert_desc(sorted, item) ==
    LET k == Cardinality({i \in DOMAIN sorted :
                            sorted[i].traction_score >= item.traction_score})
    IN  SubSeq(sorted, 1, k) \o <<item>> \o SubSeq(sorted, k + 1, Len(sorted))

\* list.sort(key = traction_score, reverse = True), a stable sort: items
\* lo..hi put one after the other, in order, into the sorted list
RECURSIVE sort_loop(_, _, _, _)
sort_loop(its, lo, hi, sorted) ==
    IF lo > hi THEN sorted
    ELSE IF lo = hi THEN insert_desc(sorted, its[lo])
    ELSE LET mid == (lo + hi) \div 2
             left == sort_loop(its, lo, mid, sorted)
         IN  IF Len(left) >= 0              \* left half first
             THEN sort_loop(its, mid + 1, hi, left)
             ELSE left

sort_by_traction(its) == sort_loop(its, 1, Len(its), <<>>)

\* The cut one item too long
truncate_off_by_one(its) == SubSeq(its, 1, Min2(Len(its), MAX_TOTAL_ITEMS + 1))

\* all_items[:MAX_TOTAL_ITEMS]
truncate(its) == SubSeq(its, 1, Min2(Len(its), MAX_TOTAL_ITEMS))

\* The cut made before the sort
rank_cut_first(its) == sort_by_traction(truncate(its))

\* Lines 603-604: sort, then cut
rank(its) == truncate(sort_by_traction(its))

\* One number put into an ascending list
insert_asc(sorted, x) ==
    LET k == Cardinality({i \in DOMAIN sorted : sorted[i] <= x})
    IN  SubSeq(sorted, 1, k) \o <<x>> \o SubSeq(sorted, k + 1, Len(sorted))

\* sorted(scores)
RECURSIVE sorted_loop(_, _, _, _)
sorted_loop(scores, lo, hi, sorted) ==
    IF lo > hi THEN sorted
    ELSE IF lo = hi THEN insert_asc(sorted, scores[lo])
    ELSE LET mid == (lo + hi) \div 2
             left == sorted_loop(scores, lo, mid, sorted)
         IN  IF Len(left) >= 0              \* left half first
             THEN sorted_loop(scores, mid + 1, hi, left)
             ELSE left

sorted_scores(scores) == sorted_loop(scores, 1, Len(scores), <<>>)

\* The map started with a zero for every known source
count_sources_all_keys(its) ==
    [s \in DOMAIN SOURCE_WEIGHTS \cup {its[i].source : i \in DOMAIN its} |->
        Cardinality({i \in DOMAIN its : its[i].source = s})]

\* The count taken of the deduplicated items, before the cut
count_sources_before_cut(its) ==
    [s \in {deduped[i].source : i \in DOMAIN deduped} |->
        Cardinality({i \in DOMAIN deduped : deduped[i].source = s})]

\* Lines 606-609: items per source, a key only for a source that has one
count_sources(its) ==
    [s \in {its[i].source : i \in DOMAIN its} |->
        Cardinality({i \in DOMAIN its : its[i].source = s})]

\* max(scores) if scores else 0
max_score_of(scores) ==
    IF scores = <<>> THEN 0
    ELSE CHOOSE m \in {scores[i] : i \in DOMAIN scores} :
            \A i \in DOMAIN scores : scores[i] <= m

\* The index taken in scores as they come (highest first), not in sorted(scores)
percentile_unsorted(scores, p) ==
    IF scores = <<>> THEN 0
    ELSE scores[((Len(scores) * p) \div 100) + 1]

\* sorted(scores)[int(len(scores) * p)] if scores else 0, p in hundredths
percentile(scores, p) ==
    IF scores = <<>> THEN 0
    ELSE sorted_scores(scores)[((Len(scores) * p) \div 100) + 1]

\* Lines 611-626: the snapshot document
snapshot(its, now) ==
    LET scores == [i \in DOMAIN its |-> its[i].traction_score]
    IN  [written |-> TRUE,
         generated_at |-> now_iso(now),
         total_items |-> Len(its),
         sources |-> count_sources(its),
         traction_stats |-> [max_score |-> max_score_of(scores),
                             p90_score |-> percentile(scores, 90),
                             p75_score |-> percentile(scores, 75)],
         items |-> its]

NoOutput ==
    [written |-> FALSE, generated_at |-> 0, total_items |-> 0, sources |-> <<>>,
     traction_stats |-> [max_score |-> 0, p90_score |-> 0, p75_score |-> 0],
     items |-> <<>>]

-----------------------------------------------------------------------------
(* The environment: what a request may answer *)

Lists(S, n) == UNION {[1..k -> S] : k \in 0..n}

\* Well-formed records, which make an item (or are skipped as duplicates)
HNGood ==
    {Raw("ok", Num(11), Absent, Absent, Absent, Num(Old)),
     Raw("ok", Num(11), Str(1), Num(5000), Absent, Absent),
     Raw("ok", Num(12), Str(1), Absent, Absent, Num(Old))}

RedditGood ==
    {Raw("ok", Absent, Str(1), Absent, Absent, Absent),
     Raw("ok", Str(21), Str(1), Absent, Absent, Absent),
     Raw("ok", Str(21), Str(2), Absent, Absent, Absent),
     Raw("ok", Absent, Absent, Absent, Absent, Num(Old))}

GitHubGood ==
    {Raw("ok", Absent, Absent, Num(10000), Absent, DateStr("%Y-%m-%dT%H:%M:%SZ", Old)),
     Raw("ok", Str(31), Str(1), Absent, Absent, DateStr("last week", 0))}

YouTubeGood ==
    {Raw("ok", Str(41), Absent, None, Absent, DateStr("%Y%m%d", Old))}

NewsGood ==
    {Raw("ok", Absent, Absent, Absent, Absent, Absent),
     Raw("ok", Absent, Str(1), Absent, Absent, DateStr("not a date", 0)),
     Raw("ok", Absent, Str(2), Absent, Absent, DateStr("not a date", 0)),
     Raw("ok", Absent, Str(1), Absent, Absent, DateStr("%a, %d %b %Y %H:%M:%S %z", Old))}

GoodRecords(src) ==
    CASE src = "hackernews" -> HNGood
      [] src = "reddit" -> RedditGood
      [] src = "github" -> GitHubGood
      [] src = "youtube" -> YouTubeGood
      [] src = "news" -> NewsGood

\* Records that are skipped, or that the adapter does not expect
HNRecords ==
    HNGood
    \cup {Raw("http", Num(11), Absent, Absent, Absent, Absent),
          Raw("not_story", Num(12), Absent, Absent, Absent, Absent),
          Raw("malformed", Num(11), Absent, Absent, Absent, Absent),
          Raw("ok", Num(12), Absent, Num(0 - 1), Absent, Absent),
          Raw("ok", Num(12), Absent, None, Absent, Absent)}

RedditRecords ==
    RedditGood
    \cup {Raw("stickied", Str(21), Str(1), Absent, Absent, Absent),
          Raw("malformed", Absent, Absent, Absent, Absent, Absent),
          Raw("ok", Str(21), Str(1), Num(0 - 1), Absent, Absent)}

GitHubRecords ==
    GitHubGood \cup {Raw("malformed", Absent, Absent, Absent, Absent, Absent)}

YouTubeRecords ==
    YouTubeGood
    \cup {Raw("ok", Str(41), Absent, Num(0 - 1), Absent, Absent),
          Raw("ok", Absent, Absent, Absent, Absent, Absent),
          Raw("malformed", Absent, Absent, Absent, Absent, Absent)}

NewsRecords == NewsGood

RawRecords(src) ==
    CASE src = "hackernews" -> HNRecords
      [] src = "reddit" -> RedditRecords
      [] src = "github" -> GitHubRecords
      [] src = "youtube" -> YouTubeRecords
      [] src = "news" -> NewsRecords

\* A long subreddit listing: n posts with distinct ids and urls, scores in a
\* repeating pattern of twenty values
BulkPosts(n) ==
    [i \in 1..n |-> Raw("ok", Str(100 + i), Str(i), Num((i % 20) * 10), Absent, Num(Old))]

BulkSizes == {MAX_TOTAL_ITEMS - 1, MAX_TOTAL_ITEMS + 1}

\* The answers a sub-request of src may get: a failure of the request, a body
\* that is not the expected JSON, or a list of records
Responses(src) ==
    {[kind |-> "ok", recs |-> r, cost |-> Len(r)] :
        r \in Lists(RawRecords(src), budget)}
    \cup (IF budget > 0
          THEN {[kind |-> f, recs |-> <<>>, cost |-> 1] :
                    f \in {"transport", "ratelimit", "malformed"}}
          ELSE {})

-----------------------------------------------------------------------------
(* One iteration of each adapter's outer loop *)

\* safe_get, lines 123-130: None for any exception of the request, which is
\* printed; the response otherwise
safe_get(resp, acc) ==
    IF resp.kind \in {"transport", "ratelimit"}
    THEN [ok |-> FALSE, acc |-> [acc EXCEPT !.caught = Append(@, resp.kind)]]
    ELSE [ok |-> TRUE, acc |-> acc]

\* Lines 179-228: one story type
hackernews_listing(resp, acc, now) ==
    LET got == safe_get(resp, acc)
    IN  IF ~got.ok THEN got.acc
        ELSE IF resp.kind = "malformed" THEN [acc EXCEPT !.exc = "JSONDecodeError"]
        ELSE Walk("hackernews", SubSeq(resp.recs, 1, Min2(Len(resp.recs), HN_TOP_N)),
                  acc, now)

\* Lines 239-289: one subreddit
reddit_listing(resp, acc, now) ==
    LET got == safe_get(resp, acc)
    IN  IF ~got.ok THEN got.acc
        ELSE IF resp.kind = "malformed" THEN [acc EXCEPT !.caught = Append(@, "malformed")]
        ELSE Walk("reddit", resp.recs, acc, now)

\* Lines 304-349: one language
github_search(resp, acc, now) ==
    LET got == safe_get(resp, acc)
    IN  IF ~got.ok THEN got.acc
        ELSE IF resp.kind = "malformed" THEN [acc EXCEPT !.exc = "JSONDecodeError"]
        ELSE Walk("github", resp.recs, acc, now)

\* Lines 362-386: one search term of the API branch
youtube_search(resp, acc, now) ==
    LET got == safe_get(resp, acc)
    IN  IF ~got.ok THEN got.acc
        ELSE IF resp.kind = "malformed" THEN [acc EXCEPT !.exc = "JSONDecodeError"]
        ELSE Walk("api", resp.recs, acc, now)

\* Lines 388-447: the statistics request and the items of the raw hits
RECURSIVE youtube_videos(_, _, _, _)
youtube_videos(raw_items, acc, now, stats_ok) ==
    IF raw_items = <<>> \/ acc.exc # "none" THEN acc
    ELSE youtube_videos(Tail(raw_items),
                        youtube_video(Head(raw_items), acc, now, stats_ok), now, stats_ok)

\* Lines 458-509: one search term of the yt-dlp branch, all of it in a try
ytdlp_search(resp, acc, now) ==
    IF resp.kind # "ok" THEN [acc EXCEPT !.caught = Append(@, resp.kind)]
    ELSE LET a == Walk("ytdlp", resp.recs, acc, now)
         IN  IF a.exc # "none"
             THEN [a EXCEPT !.exc = "none", !.caught = Append(@, "malformed")]
             ELSE a

\* Lines 520-551: one feed; feedparser gives no entries for a feed it cannot
\* fetch or parse
rss_feed(resp, acc, now) ==
    IF resp.kind # "ok" THEN [acc EXCEPT !.caught = Append(@, resp.kind)]
    ELSE Walk("news", SubSeq(resp.recs, 1, Min2(Len(resp.recs), 15)), acc, now)

-----------------------------------------------------------------------------
(* The run of main, lines 574-630 *)

Adapters == <<"hackernews", "reddit", "github", "youtube", "news">>

NextPc(src) ==
    CASE src = "hackernews" -> "reddit"
      [] src = "reddit" -> "github"
      [] src = "github" -> "youtube"
      [] src = "youtube" -> "news"
      [] src = "news" -> "dedup"

\* Iterations of each adapter's outer loop: the two story types, and of the
\* longer lists (16 subreddits, 5 languages, 5 search terms, 7 feeds) the
\* first MaxSub
Iterations(src) ==
    CASE src = "hackernews" -> 2
      [] src = "reddit" -> Min2(16, MaxSub)
      [] src = "github" -> Min2(5, MaxSub)
      [] src = "youtube" -> Min2(5, MaxSub)
      [] src = "news" -> Min2(7, MaxSub)

NoCall == [called |-> FALSE, result |-> Return(0)]

Init ==
    /\ pc = "hackernews"
    /\ sub = 1
    /\ clock = RunStart
    /\ budget = MaxEvents
    /\ items = <<>>
    /\ seen_ids = {}
    /\ yt_path = "unset"
    /\ all_items = <<>>
    /\ merged = <<>>
    /\ deduped = <<>>
    /\ output = NoOutput
    /\ caught = <<>>
    /\ exc = "none"
    /\ sc_in = NoCall
    /\ sc_out = NoCall

\* Time passes while main runs
Tick ==
    /\ pc \notin {"done", "crashed"}
    /\ clock < RunStart + MaxTicks
    /\ clock' = clock + 1
    /\ UNCHANGED <<pc, sub, budget, items, seen_ids, yt_path, all_items,
                   merged, deduped, output, caught, exc, sc_in, sc_out>>

\* The end of one iteration of the adapter src: acc is the adapter's state
\* after it, last whether the loop ends, produced the list the adapter returns
EndIteration(src, acc, last, produced) ==
    /\ caught' = acc.caught
    /\ IF acc.exc # "none"
       THEN /\ exc' = acc.exc
            /\ pc' = "crashed"
            /\ UNCHANGED <<sub, items, seen_ids, all_items>>
       ELSE IF last
       THEN /\ all_items' = all_items \o produced
            /\ pc' = NextPc(src)
            /\ sub' = 1
            /\ items' = <<>>
            /\ seen_ids' = {}
            /\ UNCHANGED exc
       ELSE /\ sub' = sub + 1
            /\ items' = acc.items
            /\ seen_ids' = acc.seen
            /\ UNCHANGED <<pc, all_items, exc>>

Charge(resp) == budget' = budget - resp.cost

\* Lines 588 and 174-231
FetchHackerNews ==
    /\ pc = "hackernews"
    /\ \E resp \in Responses("hackernews") :
        LET acc == hackernews_listing(resp, Acc(items, seen_ids, caught, "none"), clock)
            last == sub = Iterations("hackernews")
                    \/ Len(acc.items) >= MAX_ITEMS_PER_SOURCE * 2
        IN  /\ EndIteration("hackernews", acc, last, acc.items)
            /\ Charge(resp)
    /\ UNCHANGED <<clock, yt_path, merged, deduped, output, sc_in, sc_out>>

\* Lines 591 and 235-292
FetchReddit ==
    /\ pc = "reddit"
    /\ \E resp \in Responses("reddit") :
        LET acc == reddit_listing(resp, Acc(items, seen_ids, caught, "none"), clock)
        IN  /\ EndIteration("reddit", acc, sub = Iterations("reddit"), acc.items)
            /\ Charge(resp)
    /\ UNCHANGED <<clock, yt_path, merged, deduped, output, sc_in, sc_out>>

\* Lines 594 and 296-352
FetchGitHub ==
    /\ pc = "github"
    /\ \E resp \in Responses("github") :
        LET acc == github_search(resp, Acc(items, seen_ids, caught, "none"), clock)
        IN  /\ EndIteration("github", acc, sub = Iterations("github"), acc.items)
            /\ Charge(resp)
    /\ UNCHANGED <<clock, yt_path, merged, deduped, output, sc_in, sc_out>>

\* Lines 597 and 356-447: the branch taken with an API key.  The statistics
\* request follows the last search term; it may fail like any request.
FetchYouTubeApi ==
    /\ pc = "youtube"
    /\ yt_path \in {"unset", "api"}
    /\ yt_path' = "api"
    /\ \E resp \in Responses("youtube"), stats_ok \in BOOLEAN :
        LET acc == youtube_search(resp, Acc(items, seen_ids, caught, "none"), clock)
            last == sub = Iterations("youtube")
            fail == last /\ ~stats_ok /\ acc.exc = "none" /\ acc.items # <<>>
            acc1 == IF fail THEN [acc EXCEPT !.caught = Append(@, "transport")] ELSE acc
            made == IF last /\ acc.exc = "none"
                    THEN youtube_videos(acc.items, [acc1 EXCEPT !.items = <<>>],
                                        clock, stats_ok)
                    ELSE acc1
        IN  /\ stats_ok \/ (fail /\ budget > resp.cost)
            /\ EndIteration("youtube", [made EXCEPT !.items = acc.items, !.seen = acc.seen],
                            last, made.items)
            /\ budget' = budget - resp.cost - (IF fail THEN 1 ELSE 0)
    /\ UNCHANGED <<clock, merged, deduped, output, sc_in, sc_out>>

\* Lines 597 and 449-512: the branch taken without an API key, with yt_dlp
FetchYouTubeDlp ==
    /\ pc = "youtube"
    /\ yt_path \in {"unset", "ytdlp"}
    /\ yt_path' = "ytdlp"
    /\ \E resp \in Responses("youtube") :
        LET acc == ytdlp_search(resp, Acc(items, seen_ids, caught, "none"), clock)
        IN  /\ EndIteration("youtube", acc, sub = Iterations("youtube"), acc.items)
            /\ Charge(resp)
    /\ UNCHANGED <<clock, merged, deduped, output, sc_in, sc_out>>

\* Lines 449-453: no API key and yt_dlp cannot be imported
FetchYouTubeNone ==
    /\ pc = "youtube"
    /\ yt_path = "unset"
    /\ yt_path' = "none"
    /\ EndIteration("youtube", Acc(items, seen_ids, caught, "none"), TRUE, <<>>)
    /\ UNCHANGED <<clock, budget, merged, deduped, output, sc_in, sc_out>>

\* Lines 600 and 516-554
FetchRss ==
    /\ pc = "news"
    /\ \E resp \in Responses("news") :
        LET acc == rss_feed(resp, Acc(items, seen_ids, caught, "none"), clock)
        IN  /\ EndIteration("news", acc, sub = Iterations("news"), acc.items)
            /\ Charge(resp)
    /\ UNCHANGED <<clock, yt_path, merged, deduped, output, sc_in, sc_out>>

\* Line 602
Deduplicate ==
    /\ pc = "dedup"
    /\ merged' = all_items
    /\ all_items' = deduplicate(all_items)
    /\ deduped' = all_items'
    /\ pc' = "rank"
    /\ UNCHANGED <<sub, clock, budget, items, seen_ids, yt_path, output,
                   caught, exc, sc_in, sc_out>>

\* Lines 603-604
Rank ==
    /\ pc = "rank"
    /\ all_items' = rank(all_items)
    /\ pc' = "emit"
    /\ UNCHANGED <<sub, clock, budget, items, seen_ids, yt_path, merged,
                   deduped, output, caught, exc, sc_in, sc_out>>

\* Lines 606-630
Emit ==
    /\ pc = "emit"
    /\ output' = snapshot(all_items, clock)
    /\ pc' = "done"
    /\ UNCHANGED <<sub, clock, budget, items, seen_ids, yt_path, all_items,
                   merged, deduped, caught, exc, sc_in, sc_out>>

Next ==
    \/ Tick
    \/ FetchHackerNews
    \/ FetchReddit
    \/ FetchGitHub
    \/ FetchYouTubeApi
    \/ FetchYouTubeDlp
    \/ FetchYouTubeNone
    \/ FetchRss
    \/ Deduplicate
    \/ Rank
    \/ Emit

Spec == Init /\ [][Next]_vars

-----------------------------------------------------------------------------
(* The core alone, lines 602-626, on a merged input.  The input is what the *)
(* adapters make, in their order, of up to MaxItems well-formed records, or *)
(* of one long subreddit listing and up to MaxBulkExtras more.              *)

Fresh == Acc(<<>>, {}, <<>>, "none")

InitCore ==
    /\ pc = "dedup"
    /\ sub = 1
    /\ clock = RunStart
    /\ budget = 0
    /\ items = <<>>
    /\ seen_ids = {}
    /\ yt_path = "ytdlp"
    /\ \E n \in {0} \cup BulkSizes :
       \E hn \in Lists(HNGood, IF n = 0 THEN MaxItems ELSE MaxBulkExtras) :
       \E rd \in Lists(RedditGood, (IF n = 0 THEN MaxItems ELSE MaxBulkExtras) - Len(hn)) :
       \E gh \in Lists(GitHubGood,
                       (IF n = 0 THEN MaxItems ELSE MaxBulkExtras) - Len(hn) - Len(rd)) :
       \E yt \in Lists(YouTubeGood,
                       (IF n = 0 THEN MaxItems ELSE MaxBulkExtras)
                       - Len(hn) - Len(rd) - Len(gh)) :
       \E nw \in Lists(NewsGood,
                       (IF n = 0 THEN MaxItems ELSE MaxBulkExtras)
                       - Len(hn) - Len(rd) - Len(gh) - Len(yt)) :
          all_items = Walk("hackernews", hn, Fresh, RunStart).items
                      \o Walk("reddit", rd \o BulkPosts(n), Fresh, RunStart).items
                      \o Walk("github", gh, Fresh, RunStart).items
                      \o Walk("ytdlp", yt, Fresh, RunStart).items
                      \o Walk("news", nw, Fresh, RunStart).items
    /\ merged = <<>>
    /\ deduped = <<>>
    /\ output = NoOutput
    /\ caught = <<>>
    /\ exc = "none"
    /\ sc_in = NoCall
    /\ sc_out = NoCall

NextCore ==
    \/ Deduplicate
    \/ Rank
    \/ Emit

SpecCore == InitCore /\ [][NextCore]_vars

-----------------------------------------------------------------------------
(* The scorer alone: one direct call on arguments from bounded sets *)

ScoreSources == DOMAIN SOURCE_WEIGHTS \cup {"other"}

ScoreCounts ==
    {None} \cup {Num(n) : n \in ((0 - 2)..MaxCount) \cup {5000, 50000}}

ScoreHours == {0 - 3, 0, 1, 11, 12, 24, 48}

ScoreCaps == {<<5000, 500>>, <<10000, 2000>>, <<1000000, 500>>, <<1, 1>>, <<3, 2>>}

InitScore ==
    /\ pc = "score"
    /\ sub = 1
    /\ clock = RunStart
    /\ budget = 0
    /\ items = <<>>
    /\ seen_ids = {}
    /\ yt_path = "unset"
    /\ all_items = <<>>
    /\ merged = <<>>
    /\ deduped = <<>>
    /\ output = NoOutput
    /\ caught = <<>>
    /\ exc = "none"
    /\ sc_in \in [called : {TRUE}, source : ScoreSources, engagement : ScoreCounts,
                  comments : ScoreCounts, hours_old : ScoreHours, caps : ScoreCaps]
    /\ sc_out = NoCall

CallScore ==
    /\ pc = "score"
    /\ sc_out = NoCall
    /\ sc_out' = [called |-> TRUE,
                  result |-> compute_traction_score(sc_in.source, sc_in.engagement,
                                sc_in.comments, sc_in.hours_old,
                                sc_in.caps[1], sc_in.caps[2])]
    /\ UNCHANGED <<pc, sub, clock, budget, items, seen_ids, yt_path, all_items,
                   merged, deduped, output, caught, exc, sc_in>>

NextScore == CallScore

SpecScore == InitScore /\ [][NextScore]_vars

-----------------------------------------------------------------------------
(* Properties *)

Range(s) == {s[i] : i \in DOMAIN s}

\* No two elements of its have the same url, and no two the same id
NoDuplicates(its) ==
    /\ Cardinality({its[i].url : i \in DOMAIN its}) = Len(its)
    /\ Cardinality({its[i].id : i \in DOMAIN its}) = Len(its)

\* How many leading elements of a are matched, in order, by b[lo..hi] after k
\* of them were matched already
RECURSIVE Matched(_, _, _, _, _)
Matched(a, b, lo, hi, k) ==
    IF lo > hi THEN k
    ELSE IF lo = hi THEN (IF k < Len(a) /\ a[k + 1] = b[lo] THEN k + 1 ELSE k)
    ELSE LET mid == (lo + hi) \div 2
             left == Matched(a, b, lo, mid, k)
         IN  IF left >= 0 THEN Matched(a, b, mid + 1, hi, left) ELSE left

\* a is b with some elements left out
IsSubsequence(a, b) == Matched(a, b, 1, Len(b), 0) = Len(a)

AfterDedup == pc \in {"rank", "emit", "done"}

\* The input repeats a url under two ids and an id under two urls
DuplicatesInInput ==
    /\ \E i, j \in DOMAIN merged :
          i < j /\ merged[i].url = merged[j].url /\ merged[i].id # merged[j].id
    /\ \E i, j \in DOMAIN merged :
          i < j /\ merged[i].id = merged[j].id /\ merged[i].url # merged[j].url

\* C1: after deduplicate, and so in the items of the snapshot, no two items
\* have the same url and no two have the same id.
C1_NoDuplicates ==
    /\ AfterDedup => NoDuplicates(deduped) /\ NoDuplicates(all_items)
    /\ output.written => NoDuplicates(output.items)

\* C1, its case: a snapshot was written from an input that repeats a url
\* under two ids and an id under two urls.
C1_Witness ==
    /\ output.written
    /\ DuplicatesInInput
    /\ Len(output.items) < Len(merged)

\* The item at position i of the input is the first to have its url or its id
FirstOfItsKind(i) ==
    \A h \in 1..(i - 1) : merged[h].url # merged[i].url /\ merged[h].id # merged[i].id

\* The item at position i of the input is the first to have its url
FirstWithItsUrl(i) ==
    \A h \in 1..(i - 1) : merged[h].url # merged[i].url

\* Items of two sources with one url, at positions i < j of the input
SameUrlPair(i, j) ==
    /\ i < j
    /\ merged[i].url = merged[j].url
    /\ merged[i].source # merged[j].source

\* C2 as stated: the output of deduplicate is a subsequence of its input, the
\* first item of a non-empty input is kept, and of two items of different
\* sources with one url the first ingested (the first item of the input with
\* that url) is in the output and the other is not.
C2_FirstIngestedWins ==
    AfterDedup =>
        /\ IsSubsequence(deduped, merged)
        /\ merged # <<>> => deduped # <<>> /\ deduped[1] = merged[1]
        /\ \A i, j \in DOMAIN merged :
              SameUrlPair(i, j) /\ FirstWithItsUrl(i) =>
                  /\ merged[i] \in Range(deduped)
                  /\ merged[j] \notin Range(deduped)

\* C2, amended: the output of deduplicate is a subsequence of its input, the
\* first item of a non-empty input is kept, and of two items of different
\* sources with one url never both are in the output; the first ingested is
\* the one in the output whenever no item before it has its url or its id.
C2_StableFilter ==
    AfterDedup =>
        /\ IsSubsequence(deduped, merged)
        /\ merged # <<>> => deduped # <<>> /\ deduped[1] = merged[1]
        /\ \A i, j \in DOMAIN merged :
              SameUrlPair(i, j) =>
                  /\ ~(merged[i] \in Range(deduped) /\ merged[j] \in Range(deduped))
                  /\ FirstOfItsKind(i) =>
                        /\ merged[i] \in Range(deduped)
                        /\ merged[j] \notin Range(deduped)

\* C2, its case: deduplicate dropped the later of two items of different
\* sources with one url, kept the earlier, and kept two items or more.
C2_Witness ==
    /\ AfterDedup
    /\ Len(deduped) >= 2
    /\ \E i, j \in DOMAIN merged :
          /\ SameUrlPair(i, j)
          /\ FirstOfItsKind(i)
          /\ merged[j] \notin Range(deduped)

\* Arguments the scorer's contract covers: counts that are numbers >= 0
ValidCounts ==
    /\ sc_in.engagement # None /\ sc_in.engagement.v >= 0
    /\ sc_in.comments # None /\ sc_in.comments.v >= 0

\* C3: for every source, known or not, non-negative counts, any age and any
\* positive caps, compute_traction_score returns a value in [0, 100].
C3_ScoreInRange ==
    sc_out.called /\ ValidCounts =>
        /\ sc_out.result.exc = "none"
        /\ sc_out.result.value >= 0
        /\ sc_out.result.value <= 10000

\* C3, its case: a source outside the weight table, counts above the caps and
\* a negative age were scored, and gave 92.5.
C3_Witness ==
    /\ sc_out.called
    /\ ValidCounts
    /\ sc_in.source \notin DOMAIN SOURCE_WEIGHTS
    /\ sc_in.engagement.v > sc_in.caps[1]
    /\ sc_in.comments.v > sc_in.caps[2]
    /\ sc_in.hours_old < 0
    /\ sc_out.result.value = 9250

\* The call of the scorer with a count replaced by 0 where it is negative or None
ZeroIfBad(count) == IF count = None \/ count.v < 0 THEN Num(0) ELSE count

\* C4 as stated: a negative or missing count does not make the scorer raise,
\* and the score is the one the count 0 gives.
C4_BadCountsAreZero ==
    sc_out.called =>
        sc_out.result =
            compute_traction_score(sc_in.source, ZeroIfBad(sc_in.engagement),
                ZeroIfBad(sc_in.comments), sc_in.hours_old,
                sc_in.caps[1], sc_in.caps[2])

\* The items of its are sorted by score, highest first
SortedDesc(its) ==
    \A i \in 1..(Len(its) - 1) : its[i].traction_score >= its[i + 1].traction_score

\* C5: the items of the snapshot are sorted by traction_score, non-increasing,
\* and are at most MAX_TOTAL_ITEMS.
C5_SortedAndBounded ==
    /\ pc \in {"emit", "done"} =>
          SortedDesc(all_items) /\ Len(all_items) <= MAX_TOTAL_ITEMS
    /\ output.written =>
          SortedDesc(output.items) /\ Len(output.items) <= MAX_TOTAL_ITEMS

\* C5, its case: more than MAX_TOTAL_ITEMS items survived deduplication, of
\* several scores and not in order, and the snapshot holds MAX_TOTAL_ITEMS.
C5_Witness ==
    /\ output.written
    /\ Len(deduped) > MAX_TOTAL_ITEMS
    /\ ~SortedDesc(deduped)
    /\ Len(output.items) = MAX_TOTAL_ITEMS

\* C6: every deduplicated item that is not emitted has a score no higher than
\* that of any emitted item; if at most MAX_TOTAL_ITEMS items survive
\* deduplication, every one of them is emitted.
C6_KeepsHighest ==
    pc \in {"emit", "done"} =>
        /\ \A x \in Range(deduped) \ Range(all_items) :
              \A i \in DOMAIN all_items :
                  x.traction_score <= all_items[i].traction_score
        /\ Len(deduped) <= MAX_TOTAL_ITEMS =>
              /\ Len(all_items) = Len(deduped)
              /\ Range(all_items) = Range(deduped)

\* C6, its case: the cut dropped an item of another source than one it kept,
\* and the dropped item came earlier in the input than some kept item.
C6_Witness ==
    /\ pc \in {"emit", "done"}
    /\ \E x \in Range(deduped) \ Range(all_items) :
          /\ \E i \in DOMAIN all_items : all_items[i].source # x.source
          /\ \E i \in DOMAIN deduped :
                /\ deduped[i] = x
                /\ \E j \in (i + 1)..Len(deduped) : deduped[j] \in Range(all_items)

\* C7: for n >= 1 emitted items, p75_score and p90_score are the elements at
\* indices floor(0.75 n) and floor(0.90 n) of the ascending scores, both
\* within bounds, which in the emitted list (highest first) are the items
\* n - floor(0.75 n) and n - floor(0.90 n); max_score is the score of the first
\* emitted item, and p75_score <= p90_score <= max_score.
C7_Percentiles ==
    output.written /\ output.items # <<>> =>
        LET n == Len(output.items)
            i75 == (n * 75) \div 100
            i90 == (n * 90) \div 100
            st == output.traction_stats
        IN  /\ i75 >= 0 /\ i75 < n
            /\ i90 >= 0 /\ i90 < n
            /\ st.p75_score = output.items[n - i75].traction_score
            /\ st.p90_score = output.items[n - i90].traction_score
            /\ st.max_score = output.items[1].traction_score
            /\ st.p75_score <= st.p90_score
            /\ st.p90_score <= st.max_score

\* C7, its case: a snapshot of many items whose three statistics differ.
C7_Witness ==
    /\ output.written
    /\ Len(output.items) = MAX_TOTAL_ITEMS
    /\ output.traction_stats.p75_score < output.traction_stats.p90_score
    /\ output.traction_stats.p90_score < output.traction_stats.max_score

\* C8: when every source contributes no item, the run still writes a snapshot,
\* with total_items = 0, no key in sources, no items and all statistics 0.
C8_EmptyRun ==
    /\ pc \in {"rank", "emit"} /\ merged = <<>> => exc = "none" /\ all_items = <<>>
    /\ pc = "done" /\ merged = <<>> =>
          /\ output.written
          /\ output.total_items = 0
          /\ DOMAIN output.sources = {}
          /\ output.items = <<>>
          /\ output.traction_stats.max_score = 0
          /\ output.traction_stats.p90_score = 0
          /\ output.traction_stats.p75_score = 0

\* C8, its case: a run in which requests failed and no source gave an item
\* has ended.
C8_Witness ==
    /\ pc = "done"
    /\ merged = <<>>
    /\ caught # <<>>

\* C9 as stated: no failure of an adapter is propagated; main goes on to the
\* remaining sources and to the snapshot, so no exception ever escapes it.
C9_NothingPropagates == pc # "crashed" /\ exc = "none"

\* In the model every date a source gives is Old; a later date is one that
\* now_iso() put in for an absent or unparseable one
FallbackDated(item) == item.date >= RunStart

\* C10 as stated: an item whose source date is absent or unparseable is
\* emitted with the date the snapshot carries as generated_at.
C10_RunTimestamp ==
    output.written =>
        \A i \in DOMAIN output.items :
            FallbackDated(output.items[i]) =>
                output.items[i].date = output.generated_at

\* A step of fetch_rss that reads a response without a failure: every entry
\* becomes an item, dated with its source date or with the clock's reading
RssStep ==
    pc = "news" /\ Len(caught') = Len(caught) =>
        LET before == all_items \o items
            after == all_items' \o items'
        IN  /\ pc' # "crashed"
            /\ Len(after) = Len(before) + (budget - budget')
            /\ \A i \in (Len(before) + 1)..Len(after) :
                  after[i].date = Old \/ after[i].date = clock

\* C10, amended: a feed entry whose date is absent or unparseable is never
\* dropped by the adapter and never raises; its date is the clock's reading
\* when it is parsed, one reading per entry and not one per run, so it is at
\* most generated_at and two such items may carry different dates.
C10_ParseTimeFallback ==
    /\ [][RssStep]_vars
    /\ [](output.written =>
            \A i \in DOMAIN output.items :
                /\ output.items[i].date = Old \/ FallbackDated(output.items[i])
                /\ output.items[i].date <= output.generated_at)

\* C10, its case: two feed entries without a parseable date are in the
\* snapshot with different dates, one of them before generated_at.
C10_Witness ==
    /\ output.written
    /\ \E i, j \in DOMAIN output.items :
          /\ output.items[i].source = "news"
          /\ output.items[j].source = "news"
          /\ FallbackDated(output.items[i])
          /\ FallbackDated(output.items[j])
          /\ output.items[i].date < output.items[j].date
          /\ output.items[i].date < output.generated_at

\* The sum of the values of a map of counts
RECURSIVE SumOfCounts(_, _)
SumOfCounts(f, keys) ==
    IF keys = {} THEN 0
    ELSE LET k == CHOOSE x \in keys : TRUE
         IN  f[k] + SumOfCounts(f, keys \ {k})

\* The sources of the items of its
SourcesOf(its) == {its[i].source : i \in DOMAIN its}

\* C11: in the snapshot total_items is the length of items, sources has a key
\* exactly for the sources of the emitted items, each with the number of
\* emitted items of that source, and the counts sum to total_items.
C11_SummaryMatchesPayload ==
    output.written =>
        /\ output.total_items = Len(output.items)
        /\ DOMAIN output.sources = SourcesOf(output.items)
        /\ \A s \in DOMAIN output.sources :
              /\ output.sources[s] >= 1
              /\ output.sources[s] =
                    Cardinality({i \in DOMAIN output.items : output.items[i].source = s})
        /\ SumOfCounts(output.sources, DOMAIN output.sources) = output.total_items

\* C11, its case: the cut dropped items, among them every item of some
\* source, so that the count before the cut has a key the snapshot has not.
C11_Witness ==
    /\ output.written
    /\ Len(deduped) > MAX_TOTAL_ITEMS
    /\ output.total_items = MAX_TOTAL_ITEMS
    /\ SourcesOf(deduped) # SourcesOf(output.items)

\* The place of an item in the deduplicated list, whose items are distinct
PlaceInDeduped(item) == CHOOSE k \in DOMAIN deduped : deduped[k] = item

\* C12: two emitted items of equal traction_score are in the order they had
\* in the deduplicated list, and a deduplicated item that was cut came, in
\* that list, after every emitted item of its score.
C12_StableRanking ==
    pc \in {"emit", "done"} =>
        /\ \A i, j \in DOMAIN all_items :
              i < j /\ all_items[i].traction_score = all_items[j].traction_score =>
                  PlaceInDeduped(all_items[i]) < PlaceInDeduped(all_items[j])
        /\ \A x \in Range(deduped) \ Range(all_items) :
              \A i \in DOMAIN all_items :
                  all_items[i].traction_score = x.traction_score =>
                      PlaceInDeduped(all_items[i]) < PlaceInDeduped(x)

\* C12, its case: items of one score lie on both sides of the cut, and two
\* emitted items of one score were apart in the deduplicated list, with an
\* item of a lower score between them.
C12_Witness ==
    /\ pc \in {"emit", "done"}
    /\ \E x \in Range(deduped) \ Range(all_items) :
          \E i \in DOMAIN all_items : all_items[i].traction_score = x.traction_score
    /\ \E i \in 1..(Len(all_items) - 1) :
          /\ all_items[i].traction_score = all_items[i + 1].traction_score
          /\ \E k \in DOMAIN deduped :
                /\ PlaceInDeduped(all_items[i]) < k
                /\ k < PlaceInDeduped(all_items[i + 1])
                /\ deduped[k].traction_score < all_items[i].traction_score

\* The item at position j of the input is not a copy of an earlier item
FirstCopy(j) == \A h \in 1..(j - 1) : merged[h] # merged[j]

\* The items at positions i and j of the input have one url or one id
SharesKey(i, j) ==
    merged[i].url = merged[j].url \/ merged[i].id = merged[j].id

\* C13 as stated: deduplicate drops every item whose url or id is that of
\* any earlier item of the input, kept or not.
C13_DropsAnySeen ==
    AfterDedup =>
        \A j \in DOMAIN merged :
            FirstCopy(j) /\ (\E i \in 1..(j - 1) : SharesKey(i, j)) =>
                merged[j] \notin Range(deduped)

\* C13, amended: deduplicate drops an item exactly when its url or its id is
\* that of an earlier item that was kept; an item that has a url or an id only
\* in common with earlier items that were dropped is kept.
C13_DropsSeenAmongKept ==
    AfterDedup =>
        LET kept == Range(deduped)
        IN  \A j \in DOMAIN merged :
                FirstCopy(j) =>
                    (merged[j] \notin kept
                        <=> \E i \in 1..(j - 1) :
                                SharesKey(i, j) /\ merged[i] \in kept)

\* C13, its case: A, B, C in this order, B dropped for the url of A, and C,
\* which has the id of B and a url of its own, kept.
C13_Witness ==
    /\ AfterDedup
    /\ \E a, b, c \in DOMAIN merged :
          /\ a < b /\ b < c
          /\ merged[a].url = merged[b].url /\ merged[a].id # merged[b].id
          /\ merged[b].id = merged[c].id /\ merged[b].url # merged[c].url
          /\ merged[a] \in Range(deduped)
          /\ merged[b] \notin Range(deduped)
          /\ merged[c] \in Range(deduped)

====
